---- MODULE Spec2Model ----
(***************************************************************************)
(* A model of controller/git.go, the Concourse git resource: Init, Check,  *)
(* Checkout and GetMetaData over a local mirror of a git repository.       *)
(*                                                                         *)
(* Strings the code inspects character by character (reference names, tag  *)
(* names, version refs, paths) are sequences of one-character strings.     *)
(* Object ids are abbreviated to one hexadecimal digit.                    *)
(***************************************************************************)
EXTENDS Integers, Sequences, FiniteSets, TLC

\* ------------------------------------------------------------------ bounds
MaxCommits == 3
MaxTags == 2

VARIABLES
    sshDir,      \* /root/.ssh/ exists
    idRsa,       \* content of /root/.ssh/id_rsa, or "absent"
    idRsaPub,    \* content of /root/.ssh/id_rsa.pub, or "absent"
    gitDir,      \* config.Path + "/.git" exists: the local mirror is there
    tags,        \* the mirror's tag references: [Name, Target]
    tip,         \* target of refs/remotes/origin/master
    delta,       \* paths that differ between the tip's tree and an older commit's
    head,        \* detached HEAD of the working tree (<<>>: still on the branch)
    faulty,      \* the backend may fail in the middle of an enumeration
    pc,          \* "idle": no invocation running; "done": one has ended
    op,          \* the operation of the last invocation
    config,      \* its Config (Input.Source and Input.Version)
    outcome,     \* "ok": it returned; "fatal": it ended in log.Fatal or a crash
    result,      \* what it returned
    enum,        \* the object ids odb.ForEach handed to its callback
    failed,      \* the backend steps that failed during it
    prev         \* the previous invocation's outcome, when this one repeats it

vars == <<sshDir, idRsa, idRsaPub, gitDir, tags, tip, delta, head, faulty,
          pc, op, config, outcome, result, enum, failed, prev>>

env == <<sshDir, idRsa, idRsaPub, gitDir>>
backend == <<tags, tip, delta, faulty>>

\* ------------------------------------------------------------ the universe
RefsTags == <<"r", "e", "f", "s", "/", "t", "a", "g", "s", "/">>
HexChars == {"0", "1", "2", "3", "4", "5", "6", "7", "8", "9",
             "a", "b", "c", "d", "e", "f"}
CommitPool == <<"a", "b", "c", "d", "e">>
Commits == {<<CommitPool[i]>> : i \in 1..MaxCommits}
TagObj == <<"7">>          \* an annotated tag object
MissingOid == <<"9">>      \* a well-formed id of no object
OdbObjects == Commits \cup {TagObj}
RemoteBranches == {"master"}

ShortNames == {<<"v">>, <<"a">>, <<"v", "a">>, <<"a", "v">>}
\* The sets of at most MaxTags tag references, each name pointing at one object.
TagSets == UNION {{{[Name |-> RefsTags \o n, Target |-> f[n]] : n \in N} :
                      f \in [N -> OdbObjects]} :
                  N \in {M \in SUBSET ShortNames : Cardinality(M) <= MaxTags}}
FixedTags == {[Name |-> RefsTags \o <<"v">>, Target |-> <<"a">>]}

PathS == <<"s">>
PathSA == <<"s", "/", "a">>
DeltaChoices == {<<>>, <<PathS>>, <<PathSA>>, <<PathS, PathSA>>}
PathSearches == {[isNil |-> TRUE, list |-> <<>>]} \cup
                {[isNil |-> FALSE, list |-> l] :
                    l \in {<<>>, <<PathS>>, <<PathSA>>, <<PathSA, PathS>>}}
TagFilters == {<<>>, <<"v">>, <<"a">>}
Branches == {"", "master", "dev"}
VersionRefs == {<<>>, MissingOid, <<"v">>} \cup Commits
Keys == {"k1", "k2", "bad"}

Perms(S) == {f \in [1..Cardinality(S) -> S] :
                \A i, j \in 1..Cardinality(S) : f[i] = f[j] => i = j}
OdbOrders == Perms(OdbObjects)
Cuts(n) == IF faulty THEN 0..n ELSE {n}
\* What an enumeration hands to its callback: the whole order, or, when the
\* backend fails on the way, the part before the failure and an error.
Answers(orders) == UNION {{[yield |-> SubSeq(o, 1, k), err |-> k < Len(o)] :
                              k \in Cuts(Len(o))} : o \in orders}
NoAnswer == [yield |-> <<>>, err |-> FALSE]

\* ------------------------------------------------------------- the library
\* strings.Trim(s, cutset): drops every leading and trailing character of s
\* that occurs in cutset.
RECURSIVE TrimLeft(_, _)
TrimLeft(s, cutset) ==
    IF s # <<>> /\ (\E i \in 1..Len(cutset) : cutset[i] = Head(s))
    THEN TrimLeft(Tail(s), cutset) ELSE s

RECURSIVE TrimRight(_, _)
TrimRight(s, cutset) ==
    IF s # <<>> /\ (\E i \in 1..Len(cutset) : cutset[i] = s[Len(s)])
    THEN TrimRight(SubSeq(s, 1, Len(s) - 1), cutset) ELSE s

Trim(s, cutset) == TrimRight(TrimLeft(s, cutset), cutset)

\* regexp.MatchString for a pattern of literal characters: an unanchored
\* search for the pattern in the name.
MatchString(re, name) ==
    \E i \in 0..Len(name) : i + Len(re) <= Len(name)
                            /\ SubSeq(name, i + 1, i + Len(re)) = re

\* git.NewOid: the string is a well-formed object id.
NewOid(ref) == Len(ref) = 1 /\ ref[1] \in HexChars

\* The object store: each commit's committer time, the tag object's tagger time.
CommitIndex(c) == CHOOSE i \in 1..MaxCommits : <<CommitPool[i]>> = c
CommitterWhen(c) == (CommitIndex(c) + 1) \div 2
TaggerWhen(t) == 2
ObjType(oid) == IF oid \in Commits THEN "commit"
                ELSE IF oid = TagObj THEN "tag" ELSE "none"

Ok(r) == [outcome |-> "ok", result |-> r, enum |-> <<>>, failed |-> {}]
Fatal(step) == [outcome |-> "fatal", result |-> <<>>, enum |-> <<>>,
                failed |-> {step}]
WithFailed(r, f) == [r EXCEPT !.failed = @ \cup f]

\* ------------------------------------------------------------ tag selection
\* tagWhen: the tagger's time of a tag object, the committer's time of a commit.
tagWhen(oid) ==
    IF ObjType(oid) = "tag" THEN TaggerWhen(oid)
    ELSE IF ObjType(oid) = "commit" THEN CommitterWhen(oid)
    ELSE 0

\* listTags: the tags repo.Tags.Foreach yields whose full reference name
\* matches the filter, in the order yielded.
listTags(yield, tagFilter) ==
    LET keep(t) == MatchString(tagFilter, t.Name)
        tag(t) == [Name |-> t.Name, Commit |-> t.Target, When |-> tagWhen(t.Target)]
        all == [i \in 1..Len(yield) |-> tag(yield[i])]
    IN  SelectSeq(all, keep)

\* The comparison functions handed to sort.Slice.
lastTagLess(x, y) ==
    IF x.When < y.When THEN TRUE
    ELSE IF x.When > y.When THEN FALSE
    ELSE x.When < y.When

lastTagsLess(x, y) ==
    IF x.When > y.When THEN TRUE
    ELSE IF x.When < y.When THEN FALSE
    ELSE x.When > y.When

\* sort.Slice, as the insertion sort it runs on short slices: x moves left
\* while it is less than its neighbour.  Elements that compare equal keep the
\* order of the enumeration, and every enumeration order is considered, so
\* every order sort.Slice may leave them in is covered.
RECURSIVE InsertAscending(_, _)
InsertAscending(s, x) ==
    IF s # <<>> /\ lastTagLess(x, s[Len(s)])
    THEN Append(InsertAscending(SubSeq(s, 1, Len(s) - 1), x), s[Len(s)])
    ELSE Append(s, x)

RECURSIVE SortAscending(_)
SortAscending(s) ==
    IF s = <<>> THEN <<>>
    ELSE InsertAscending(SortAscending(SubSeq(s, 1, Len(s) - 1)), s[Len(s)])

RECURSIVE InsertDescending(_, _)
InsertDescending(s, x) ==
    IF s # <<>> /\ lastTagsLess(x, s[Len(s)])
    THEN Append(InsertDescending(SubSeq(s, 1, Len(s) - 1), x), s[Len(s)])
    ELSE Append(s, x)

RECURSIVE SortDescending(_)
SortDescending(s) ==
    IF s = <<>> THEN <<>>
    ELSE InsertDescending(SortDescending(SubSeq(s, 1, Len(s) - 1)), s[Len(s)])

\* lastTag: the last tag of the ascending order, its name trimmed.
lastTag(listTag) ==
    LET sorted == SortAscending(listTag)
        lt == sorted[Len(sorted)]
    IN  <<Trim(lt.Name, RefsTags)>>

\* The loop of lastTags: each trimmed name goes to the front of the result,
\* and the loop ends after the one equal to the version's ref.
RECURSIVE lastTagsLoop(_, _, _)
lastTagsLoop(list, ref, acc) ==
    IF list = <<>> THEN acc
    ELSE LET lt == Trim(Head(list).Name, RefsTags)
             r == <<lt>> \o acc
         IN  IF ref = lt THEN r ELSE lastTagsLoop(Tail(list), ref, r)

lastTags(listTag, ref) == lastTagsLoop(SortDescending(listTag), ref, <<>>)

\* checkTagFilter, given what repo.Tags.Foreach yields.
checkTagFilter(cfg, tagAns) ==
    IF ~gitDir THEN Fatal("open")
    ELSE LET list == listTags(tagAns.yield, cfg.TagFilter)
             f == IF tagAns.err THEN {"tags"} ELSE {}
         IN  IF cfg.Ref # <<>> THEN WithFailed(Ok(lastTags(list, cfg.Ref)), f)
             ELSE IF list # <<>> THEN WithFailed(Ok(lastTag(list)), f)
             ELSE WithFailed(Ok(<<>>), f)

\* ------------------------------------------------------------- commit walk
\* The callback of odb.ForEach: the ids of the objects that are commits.
allCommitList(yield) == SelectSeq(yield, LAMBDA id : ObjType(id) = "commit")

\* lastCommitsLoop with ids appended: the order of the enumeration kept.
RECURSIVE lastCommitsLoopAppend(_, _, _)
lastCommitsLoopAppend(list, ref, acc) ==
    IF list = <<>> THEN acc
    ELSE LET r == Append(acc, Head(list))
         IN  IF ref = Head(list) THEN r
             ELSE lastCommitsLoopAppend(Tail(list), ref, r)

\* The loop of lastCommits: each id goes to the front of the result, and the
\* loop ends after the one equal to the version's ref.
RECURSIVE lastCommitsLoop(_, _, _)
lastCommitsLoop(list, ref, acc) ==
    IF list = <<>> THEN acc
    ELSE LET r == <<Head(list)>> \o acc
         IN  IF ref = Head(list) THEN r ELSE lastCommitsLoop(Tail(list), ref, r)

\* lastCommits, given what odb.ForEach yields; its error is not looked at.
lastCommits(cfg, odbAns) ==
    IF ~gitDir THEN Fatal("open")
    ELSE [outcome |-> "ok",
          result |-> lastCommitsLoop(allCommitList(odbAns.yield), cfg.Ref, <<>>),
          enum |-> odbAns.yield,
          failed |-> IF odbAns.err THEN {"odb"} ELSE {}]

\* checkCommit: the walk when a version is given, else the branch tip.
checkCommit(cfg, odbAns) ==
    IF cfg.Ref # <<>> THEN lastCommits(cfg, odbAns)
    ELSE IF ~gitDir THEN Fatal("open")
    ELSE IF cfg.Branch \notin RemoteBranches THEN Fatal("branch")
    ELSE Ok(<<tip>>)

\* -------------------------------------------------------------- path filter
\* The paths of the deltas between the tip's tree and the version's tree.
Changed(ref) == IF ref = tip THEN <<>> ELSE delta

\* lookupCommit frees the tree it returns (defer tree.Free()), and diff hands
\* that tree to DiffTreeToTree.  What the library reads from the freed object
\* is not defined: the tree as it was, some other content (the paths then
\* differ from the real difference), or memory that crashes the process.
TreeReads(ref) == {Changed(ref)} \cup DeltaChoices

\* diff, given what diff.ForEach yields; its error is not looked at.
diff(cfg, diffAns) ==
    IF ~gitDir THEN Fatal("open")
    ELSE IF cfg.Branch \notin RemoteBranches THEN Fatal("branch")
    ELSE IF ~NewOid(cfg.Ref) THEN Fatal("version")
    ELSE IF ObjType(cfg.Ref) # "commit" THEN Fatal("version")
    ELSE IF diffAns.crash THEN Fatal("freed-tree")
    ELSE [outcome |-> "ok", result |-> diffAns.yield, enum |-> <<>>,
          failed |-> IF diffAns.err THEN {"diff"} ELSE {}]

\* A changed path equal to the watched path.
pathMatches(files, pathSearch) == \E j \in 1..Len(files) : files[j] = pathSearch

\* The loop of checkPaths over the watched paths, from the i-th on.
RECURSIVE checkPathsLoop(_, _, _, _)
checkPathsLoop(cfg, i, odbAns, diffAns) ==
    IF i > Len(cfg.PathSearch.list) THEN Ok(<<>>)
    ELSE LET d == diff(cfg, diffAns)
         IN  IF d.outcome = "fatal" THEN d
             ELSE IF pathMatches(d.result, cfg.PathSearch.list[i])
             THEN WithFailed(checkCommit(cfg, odbAns), d.failed)
             ELSE WithFailed(checkPathsLoop(cfg, i + 1, odbAns, diffAns), d.failed)

checkPaths(cfg, odbAns, diffAns) ==
    IF cfg.Ref = <<>> THEN checkCommit(cfg, odbAns)
    ELSE checkPathsLoop(cfg, 1, odbAns, diffAns)

\* -------------------------------------------------------------------- Check
\* The Branch default that Init and Check write into the payload.
DefaultBranch(cfg) ==
    IF cfg.Branch = "" THEN [cfg EXCEPT !.Branch = "master"] ELSE cfg

CheckReturn(cfg, tagAns, odbAns, diffAns) ==
    IF cfg.TagFilter # <<>> THEN checkTagFilter(cfg, tagAns)
    ELSE IF ~cfg.PathSearch.isNil THEN checkPaths(cfg, odbAns, diffAns)
    ELSE checkCommit(cfg, odbAns)

\* The enumerations an invocation of Check runs: repo.Tags.Foreach under a
\* tag filter, odb.ForEach and diff.ForEach only with a version and no filter.
TagAnswers(cfg) ==
    IF cfg.TagFilter # <<>> THEN Answers(Perms(tags)) ELSE {NoAnswer}
OdbAnswers(cfg) ==
    IF cfg.TagFilter = <<>> /\ cfg.Ref # <<>> THEN Answers(OdbOrders) ELSE {NoAnswer}
DiffReads(ref) ==
    {[yield |-> a.yield, err |-> a.err, crash |-> FALSE] :
        a \in Answers(TreeReads(ref))}
    \cup {[yield |-> <<>>, err |-> FALSE, crash |-> TRUE]}
DiffAnswers(cfg) ==
    IF cfg.TagFilter = <<>> /\ cfg.Ref # <<>> /\ ~cfg.PathSearch.isNil
    THEN DiffReads(cfg.Ref)
    ELSE {[yield |-> <<>>, err |-> FALSE, crash |-> FALSE]}

\* Everything an invocation of Check may return in this state of the backend.
CheckReturns(cfg) ==
    {CheckReturn(cfg, tagAns, odbAns, diffAns) :
        tagAns \in TagAnswers(cfg),
        odbAns \in OdbAnswers(cfg),
        diffAns \in DiffAnswers(cfg)}

CheckConfigs ==
    {[Branch |-> b, TagFilter |-> f, PathSearch |-> p, PrivateKey |-> "", Ref |-> r] :
        b \in Branches, f \in TagFilters, p \in PathSearches, r \in VersionRefs}

NoConfig == [Branch |-> "", TagFilter |-> <<>>,
             PathSearch |-> [isNil |-> TRUE, list |-> <<>>],
             PrivateKey |-> "", Ref |-> <<>>]
NoPrev == [set |-> FALSE, outcome |-> "none", result |-> <<>>]

Check ==
    /\ pc = "idle"
    /\ \E input \in CheckConfigs :
         LET cfg == DefaultBranch(input) IN
         \E r \in CheckReturns(cfg) :
            /\ config' = cfg
            /\ outcome' = r.outcome
            /\ result' = r.result
            /\ enum' = r.enum
            /\ failed' = r.failed
    /\ op' = "check"
    /\ pc' = "done"
    /\ UNCHANGED <<env, backend, head, prev>>

\* The pipeline engine invokes Check again with the payload it sent before.
Recheck ==
    /\ pc = "done" /\ op = "check" /\ ~prev.set
    /\ \E r \in CheckReturns(config) :
            /\ outcome' = r.outcome
            /\ result' = r.result
            /\ enum' = r.enum
            /\ failed' = r.failed
    /\ prev' = [set |-> TRUE, outcome |-> outcome, result |-> result]
    /\ UNCHANGED <<env, backend, head, pc, op, config>>

\* The invocation's process ends; nothing of it stays but the files.
Exit ==
    /\ pc = "done"
    /\ pc' = "idle"
    /\ op' = "none"
    /\ config' = NoConfig
    /\ outcome' = "none"
    /\ result' = <<>>
    /\ enum' = <<>>
    /\ failed' = {}
    /\ prev' = NoPrev
    /\ UNCHANGED <<env, backend, head>>

Idle ==
    /\ pc = "idle" /\ op = "none" /\ config = NoConfig /\ outcome = "none"
    /\ result = <<>> /\ enum = <<>> /\ failed = {} /\ prev = NoPrev

InitRepo ==
    /\ sshDir = TRUE /\ idRsa = "k1" /\ idRsaPub = "pub-k1"
    /\ gitDir \in BOOLEAN
    /\ tags = FixedTags
    /\ tip \in Commits
    /\ delta \in DeltaChoices
    /\ head = <<>>
    /\ faulty = FALSE
    /\ Idle

InitTags ==
    /\ sshDir = TRUE /\ idRsa = "k1" /\ idRsaPub = "pub-k1"
    /\ gitDir = TRUE
    /\ tags \in TagSets
    /\ tip = <<CommitPool[1]>>
    /\ delta = <<>>
    /\ head = <<>>
    /\ faulty = FALSE
    /\ Idle

InitFault ==
    /\ sshDir = TRUE /\ idRsa = "k1" /\ idRsaPub = "pub-k1"
    /\ gitDir \in BOOLEAN
    /\ tags = FixedTags
    /\ tip \in Commits
    /\ delta \in DeltaChoices
    /\ head = <<>>
    /\ faulty = TRUE
    /\ Idle

InitDet ==
    /\ sshDir = TRUE /\ idRsa = "k1" /\ idRsaPub = "pub-k1"
    /\ gitDir = TRUE
    /\ tags = FixedTags
    /\ tip \in Commits
    /\ delta = <<PathS>>
    /\ head = <<>>
    /\ faulty = FALSE
    /\ Idle

InitEnv ==
    /\ sshDir \in BOOLEAN
    /\ \/ idRsa = "absent" /\ idRsaPub = "absent"
       \/ sshDir /\ idRsa = "k1" /\ idRsaPub = "pub-k1"
    /\ gitDir \in BOOLEAN
    /\ tags = FixedTags
    /\ tip \in Commits
    /\ delta = <<>>
    /\ head = <<>>
    /\ faulty = FALSE
    /\ Idle

\* ----------------------------------------------------------------- Checkout
\* repo.References.Lookup("refs/tags/" + ref): the tags of that name.
TagsNamed(ref) == {t \in tags : t.Name = RefsTags \o ref}

\* The id Checkout and GetMetaData go on with: the tag's target when the
\* lookup found a tag, else the ref parsed as an id, <<>> (nil) when it is none.
ResolveOid(ref) ==
    IF TagsNamed(ref) # {} THEN (CHOOSE t \in TagsNamed(ref) : TRUE).Target
    ELSE IF NewOid(ref) THEN ref
    ELSE <<>>

\* The commit an id peels to: itself, or the commit an annotated tag points at.
Peel(oid) == IF oid = TagObj THEN <<CommitPool[1]>> ELSE oid

\* Checkout: no error of SetHeadDetached or CheckoutHead is looked at.  With a
\* nil id the call into the library either crashes or reports an error.
CheckoutReturns(cfg) ==
    IF ~gitDir THEN {[outcome |-> "fatal", head |-> head, failed |-> {"open"}]}
    ELSE LET oid == ResolveOid(cfg.Ref) IN
         IF oid = <<>>
         THEN {[outcome |-> o, head |-> head, failed |-> {"version"}] :
                  o \in {"ok", "fatal"}}
         ELSE IF ObjType(oid) = "none"
         THEN {[outcome |-> "ok", head |-> head, failed |-> {"version"}]}
         ELSE {[outcome |-> "ok", head |-> Peel(oid), failed |-> {}]}

MaterializeConfigs ==
    {[Branch |-> b, TagFilter |-> <<>>,
      PathSearch |-> [isNil |-> TRUE, list |-> <<>>], PrivateKey |-> "", Ref |-> r] :
        b \in Branches, r \in VersionRefs \cup ShortNames}

Checkout ==
    /\ pc = "idle"
    /\ \E cfg \in MaterializeConfigs : \E r \in CheckoutReturns(cfg) :
            /\ config' = cfg
            /\ outcome' = r.outcome
            /\ head' = r.head
            /\ failed' = r.failed
    /\ result' = <<>>
    /\ enum' = <<>>
    /\ op' = "checkout"
    /\ pc' = "done"
    /\ UNCHANGED <<env, backend, prev>>

\* -------------------------------------------------------------- GetMetaData
\* What the commit object gives: committer name, committer time, message.
CommitterName(c) == "committer"
CommitMessage(c) == <<"message", c>>

Field(n, v) == [name |-> n, value |-> v]

\* GetMetaDataReturn with the tag field always set to the version.
GetMetaDataReturnTagAlways(cfg) ==
    IF ~gitDir THEN Fatal("open")
    ELSE LET oid == ResolveOid(cfg.Ref)
         IN  IF oid = <<>> \/ ObjType(oid) # "commit" THEN Fatal("version")
             ELSE Ok(<<Field("commit", oid),
                       Field("author", CommitterName(oid)),
                       Field("date", CommitterWhen(oid)),
                       Field("branch", cfg.Branch),
                       Field("tag", cfg.Ref),
                       Field("message", CommitMessage(oid))>>)

GetMetaDataReturn(cfg) ==
    IF ~gitDir THEN Fatal("open")
    ELSE LET obj == TagsNamed(cfg.Ref)
             oid == ResolveOid(cfg.Ref)
         IN  IF oid = <<>> \/ ObjType(oid) # "commit" THEN Fatal("version")
             ELSE Ok(<<Field("commit", oid),
                       Field("author", CommitterName(oid)),
                       Field("date", CommitterWhen(oid)),
                       Field("branch", cfg.Branch),
                       Field("tag", IF obj # {} THEN cfg.Ref ELSE <<>>),
                       Field("message", CommitMessage(oid))>>)

GetMetaData ==
    /\ pc = "idle"
    /\ \E cfg \in MaterializeConfigs :
         LET r == GetMetaDataReturn(cfg) IN
            /\ config' = cfg
            /\ outcome' = r.outcome
            /\ result' = r.result
            /\ failed' = r.failed
    /\ enum' = <<>>
    /\ op' = "metadata"
    /\ pc' = "done"
    /\ UNCHANGED <<env, backend, head, prev>>

\* --------------------------------------------------------------------- Init
\* exists(sshKeyPath): the directory /root/.ssh/ is there.
KeysExist == sshDir

\* ssh-keygen -y derives the public key; it fails on a file that is no key.
PubKey(key) == IF key = "k1" THEN "pub-k1" ELSE "pub-k2"
KeygenOk(key) == key \in {"k1", "k2"}

InitConfigs ==
    {[Branch |-> b, TagFilter |-> <<>>,
      PathSearch |-> [isNil |-> TRUE, list |-> <<>>], PrivateKey |-> k, Ref |-> <<>>] :
        b \in Branches, k \in Keys}

\* Init: the key files when /root/.ssh/ is missing, then fetch or clone, whose
\* network round trip may fail.
InitOp ==
    /\ pc = "idle"
    /\ \E input \in InitConfigs : \E netOk \in BOOLEAN :
         LET cfg == DefaultBranch(input)
             writes == ~KeysExist
             keygenFails == writes /\ ~KeygenOk(cfg.PrivateKey)
             cloneOk == netOk /\ cfg.Branch \in RemoteBranches
             repoOk == IF gitDir THEN netOk ELSE cloneOk
         IN  /\ config' = cfg
             /\ sshDir' = TRUE
             /\ idRsa' = IF writes THEN cfg.PrivateKey ELSE idRsa
             /\ idRsaPub' = IF writes /\ ~keygenFails
                            THEN PubKey(cfg.PrivateKey) ELSE idRsaPub
             /\ gitDir' = IF keygenFails THEN gitDir ELSE (gitDir \/ cloneOk)
             /\ outcome' = IF keygenFails \/ ~repoOk THEN "fatal" ELSE "ok"
             /\ failed' = IF keygenFails THEN {"keygen"}
                          ELSE IF ~repoOk THEN {"network"} ELSE {}
    /\ result' = <<>>
    /\ enum' = <<>>
    /\ op' = "init"
    /\ pc' = "done"
    /\ UNCHANGED <<backend, head, prev>>

\* ----------------------------------------------------------- specifications
Init == InitRepo
Next == Check \/ Checkout \/ Exit
Spec == Init /\ [][Next]_vars

NextTags == Check \/ Exit
SpecTags == InitTags /\ [][NextTags]_vars

NextMeta == GetMetaData \/ Exit
SpecMeta == InitTags /\ [][NextMeta]_vars

NextFault == Check \/ Checkout \/ Exit
SpecFault == InitFault /\ [][NextFault]_vars

NextInit == InitOp \/ Exit
SpecInit == InitEnv /\ [][NextInit]_vars

NextDet == Check \/ Recheck \/ Exit
SpecDet == InitDet /\ [][NextDet]_vars
\* ------------------------------------------------------------------- claims
IsCheck == pc = "done" /\ op = "check"
Range(s) == {s[i] : i \in 1..Len(s)}
Reverse(s) == [i \in 1..Len(s) |-> s[Len(s) + 1 - i]]
\* s up to and including the first x, all of s when x is not in it.
UpTo(s, x) ==
    IF x \in Range(s)
    THEN SubSeq(s, 1, CHOOSE i \in 1..Len(s) :
                          s[i] = x /\ \A j \in 1..(i - 1) : s[j] # x)
    ELSE s
\* The commits the object-store enumeration yielded, in its order.
EnumCommits == SelectSeq(enum, LAMBDA id : id \in Commits)
\* A tag's name: its reference name without the leading "refs/tags/".
ShortName(t) == SubSeq(t.Name, Len(RefsTags) + 1, Len(t.Name))
When(t) == tagWhen(t.Target)
\* The tag set T: the tags whose name the filter matches.
Filtered == {t \in tags : MatchString(config.TagFilter, t.Name)}

\* C1: Check returns the tag-filter policy's result when tagFilter is
\* non-empty, else the path-filter policy's result when watchedPaths holds a
\* path, else (watchedPaths absent or an empty list) exactly what the
\* plain-commit policy returns.
C1_PolicyDispatch ==
    IsCheck =>
        LET policy ==
                IF config.TagFilter # <<>>
                THEN {checkTagFilter(config, a) : a \in Answers(Perms(tags))}
                ELSE IF config.PathSearch.list # <<>>
                THEN {checkPaths(config, o, d) :
                         o \in Answers(OdbOrders),
                         d \in DiffReads(config.Ref)}
                ELSE {checkCommit(config, o) : o \in Answers(OdbOrders)}
        IN  \E r \in policy : r.outcome = outcome /\ r.result = result

\* C2: with a tag filter and no lastSeen, Check returns one element, the tag
\* of T with the maximum timestamp, and an empty result when T is empty.
C2_LatestTag ==
    (IsCheck /\ outcome = "ok" /\ config.TagFilter # <<>> /\ config.Ref = <<>>) =>
        IF Filtered = {} THEN result = <<>>
        ELSE /\ Len(result) = 1
             /\ \E t \in Filtered : /\ result[1] = ShortName(t)
                                    /\ \A u \in Filtered : When(u) <= When(t)

\* C3: with a tag filter and a lastSeen that is in T, the result's last
\* element is lastSeen and its elements are exactly the tags of T whose
\* timestamp is at least lastSeen's, oldest first.
C3_TagsSince ==
    (IsCheck /\ outcome = "ok" /\ config.TagFilter # <<>>
       /\ \E t \in Filtered : ShortName(t) = config.Ref) =>
        LET seen == CHOOSE t \in Filtered : ShortName(t) = config.Ref
            since == {t \in Filtered : When(t) >= When(seen)}
            tagOf(n) == CHOOSE t \in Filtered : ShortName(t) = n
        IN  /\ result # <<>>
            /\ result[Len(result)] = config.Ref
            /\ Range(result) = {ShortName(t) : t \in since}
            /\ Len(result) = Cardinality(since)
            /\ \A i, j \in 1..Len(result) :
                   i < j => When(tagOf(result[i])) <= When(tagOf(result[j]))

\* The plain-commit policy with a lastSeen, returned.
PlainWalkCase ==
    /\ IsCheck /\ outcome = "ok"
    /\ config.TagFilter = <<>> /\ config.PathSearch.isNil /\ config.Ref # <<>>

\* C4 as stated: the result is the enumerated commits up to and including the
\* first one equal to lastSeen, in reverse order of enumeration, with lastSeen
\* as the last element; every enumerated commit once when it is never yielded.
C4_WalkEndsWithLastSeen ==
    PlainWalkCase =>
        /\ result = Reverse(UpTo(EnumCommits, config.Ref))
        /\ config.Ref \in Range(EnumCommits) => result[Len(result)] = config.Ref

\* C4 as amended: the same list, with lastSeen as its FIRST element; when
\* lastSeen is never yielded, every enumerated commit exactly once, reversed.
C4_WalkStartsWithLastSeen ==
    PlainWalkCase =>
        /\ result = Reverse(UpTo(EnumCommits, config.Ref))
        /\ config.Ref \in Range(EnumCommits) => result[1] = config.Ref
        /\ config.Ref \notin Range(EnumCommits) =>
              /\ result = Reverse(EnumCommits)
              /\ \A c \in Range(EnumCommits) :
                    Cardinality({i \in 1..Len(result) : result[i] = c}) = 1

\* A walk that found lastSeen after another commit.
C4_Witness ==
    /\ PlainWalkCase
    /\ config.Ref \in Range(EnumCommits)
    /\ Len(result) >= 2
    /\ result[1] = config.Ref

\* The path-filter policy with a lastSeen, returned.
PathCase ==
    /\ IsCheck /\ outcome = "ok"
    /\ config.TagFilter = <<>> /\ ~config.PathSearch.isNil /\ config.Ref # <<>>

\* C5: under the path-filter policy with a lastSeen, Check returns an empty
\* result when no watched path is exactly a path that changed between lastSeen
\* and the branch tip, and the plain-commit walk's result when one is; a
\* watched path that is only a prefix of a changed path does not count.
C5_PathGate ==
    PathCase =>
        IF \E i \in 1..Len(config.PathSearch.list) :
               config.PathSearch.list[i] \in Range(Changed(config.Ref))
        THEN result = Reverse(UpTo(EnumCommits, config.Ref))
        ELSE result = <<>>

\* C6: after every completed Init the private key file exists: a call that
\* finds it absent writes it, even if the key directory is already there.
C6_KeyAfterInit ==
    (pc = "done" /\ op = "init" /\ outcome = "ok") => idRsa # "absent"

\* C7: two invocations of Check with the same configuration and lastSeen on
\* the same backend state return the same ordered result.
C7_Deterministic ==
    (IsCheck /\ prev.set) => (prev.outcome = outcome /\ prev.result = result)

\* C8: whenever a backend step fails during Check or Checkout, the invocation
\* aborts; nothing is returned after a failure.
C8_AbortOnFailure ==
    (pc = "done" /\ op \in {"check", "checkout"} /\ failed # {}) =>
        outcome = "fatal"

C10_RefIsTagName ==
    (IsCheck /\ outcome = "ok" /\ config.TagFilter # <<>>) =>
        \A i \in 1..Len(result) : \E t \in Filtered : result[i] = ShortName(t)
====
